---- MODULE Spec2Model ----
(***************************************************************************)
(* Model of tsp.c: nearest-neighbour travelling-salesman search, run from  *)
(* every start city of a range, the range split over pthread workers that  *)
(* fold their local best into a global best under a mutex.                 *)
(*                                                                         *)
(* City indices are 0-based as in the source; the std::vector<int> path is *)
(* a sequence.  A Path object on the heap is named by <<worker, start>>,   *)
(* the worker that ran "new Path" and the start city it was built for.     *)
(***************************************************************************)
EXTENDS Integers, Sequences, FiniteSets, TLC

VARIABLES
    cities,             \* Cities::city_vec, a function 0..N-1 -> <<x, y>>
    cost_matrix,        \* Cost::matrix, cost_matrix[r][c]
    num_threads,        \* main: num_threads (-t)
    start_city,         \* main: start_city (-s)
    global_stop_time,   \* 0 when -T was not given
    now,                \* the value time(NULL) returns
    pc,                 \* main's position
    mi,                 \* main's loop index i (spawn loop, then join loop)
    bounds,             \* std::vector<bounds_t> bounds
    tpc,                \* each worker's position in runthread
    tsc,                \* runthread: the loop variable start_city
    local_best_length,  \* runthread: local_best_length
    local_best_path,    \* runthread: local_best_path (a pointer)
    global_best_length,
    global_best_path,   \* a pointer
    m,                  \* pthread_mutex_t m: its holder, or Free
    built,              \* every Path calcPath returned: pointer -> Path
    live,               \* pointers of the Path objects not yet deleted
    deleted,            \* pointer of a deleted Path -> the threads that deleted it
    begun,              \* per worker, the start cities it began, in order (history)
    evals,              \* per worker, its finished calcPath calls in order (history)
    spawned,            \* per worker, was the stop time past at pthread_create (history)
    status,             \* "running", or how the process ended
    printed             \* what printPath wrote to outfile

vars == <<cities, cost_matrix, num_threads, start_city, global_stop_time, now,
          pc, mi, bounds, tpc, tsc, local_best_length, local_best_path,
          global_best_length, global_best_path, m, built, live, deleted, begun, evals,
          spawned, status, printed>>

-----------------------------------------------------------------------------
(* Bounds of the model *)

MaxCities == 4        \* city count of the threaded runs
MaxCalcCities == 4    \* city count of the single-worker runs
MaxFairCities == 3    \* city count of the runs under fair scheduling
MaxThreads == 3       \* -t
Epoch == 1            \* time(NULL) when the arguments were parsed
MaxBelow == 1         \* how far below 0 the arguments of -s and -t go
MaxCoord == 4         \* city coordinates of the runs that check the costs

(* Program constants *)

INT_MAX == 2147483647

NULL == <<>>
Free == -1
Nothing == <<>>

Min2(a, b) == IF a < b THEN a ELSE b
Max2(a, b) == IF a < b THEN b ELSE a

-----------------------------------------------------------------------------
(* Cities::initCosts *)

\* the integer part of sqrt(q)
RECURSIVE SqrtFloorFrom(_, _)
SqrtFloorFrom(q, f) == IF (f + 1) * (f + 1) > q THEN f ELSE SqrtFloorFrom(q, f + 1)

\* variant of RoundedSqrt: the square root truncated, the half left out
TruncatedSqrt(q) == SqrtFloorFrom(q, 0)

\* (int)(sqrt(q) + 0.5): truncation of the square root plus one half.  With
\* f the integer part of sqrt(q), sqrt(q) + 0.5 reaches f + 1 exactly when
\* 4q >= (2f+1)^2.
RoundedSqrt(q) ==
    LET f == SqrtFloorFrom(q, 0)
    IN  IF 4 * q >= (2 * f + 1) * (2 * f + 1) THEN f + 1 ELSE f

\* the value the loop body stores in matrix[r][c] (and mirrors to [c][r])
CostOf(cv, r, c) ==
    LET delx == cv[r][1] - cv[c][1]
        dely == cv[r][2] - cv[c][2]
    IN  RoundedSqrt(delx * delx + dely * dely)

\* variant of initCosts: the write to matrix[c][r] left out, so that the
\* entries below the diagonal keep the 0 that resize gave them
initCostsUpperOnly(cv) ==
    [r \in DOMAIN cv |->
        [c \in DOMAIN cv |-> IF r <= c THEN CostOf(cv, r, c) ELSE 0]]

\* the loops run over r <= c and write both [r][c] and [c][r]
initCosts(cv) ==
    [r \in DOMAIN cv |->
        [c \in DOMAIN cv |-> CostOf(cv, Min2(r, c), Max2(r, c))]]

-----------------------------------------------------------------------------
(* Path::calcPath *)

getCost(mx, r, c) == mx[r][c]

\* variants of IsCloser: the visited test left out; ties taken by the later city
IsCloserAnyCity(mx, curr_city, ix, inpath, closest_cost) ==
    getCost(mx, curr_city, ix) < closest_cost

IsCloserOrEqual(mx, curr_city, ix, inpath, closest_cost) ==
    ix \notin inpath /\ getCost(mx, curr_city, ix) <= closest_cost

\* the test that makes ix the new closest city
IsCloser(mx, curr_city, ix, inpath, closest_cost) ==
    ix \notin inpath /\ getCost(mx, curr_city, ix) < closest_cost

\* the inner loop over ix; yields closest (-1 when no city qualified)
RECURSIVE ScanRow(_, _, _, _, _, _, _)
ScanRow(mx, n, curr_city, inpath, ix, closest, closest_cost) ==
    IF ix >= n THEN closest
    ELSE IF IsCloser(mx, curr_city, ix, inpath, closest_cost)
         THEN ScanRow(mx, n, curr_city, inpath, ix + 1, ix, getCost(mx, curr_city, ix))
         ELSE ScanRow(mx, n, curr_city, inpath, ix + 1, closest, closest_cost)

\* the outer loop over i; failed is the assert(closest != -1)
RECURSIVE PathLoop(_, _, _, _, _, _, _)
PathLoop(mx, n, i, curr_city, inpath, path, pathcost) ==
    IF i >= n
    THEN [path |-> path, pathcost |-> pathcost, curr_city |-> curr_city, failed |-> FALSE]
    ELSE LET closest == ScanRow(mx, n, curr_city, inpath, 0, -1, INT_MAX)
         IN  IF closest = -1
             THEN [path |-> path, pathcost |-> pathcost, curr_city |-> curr_city,
                   failed |-> TRUE]
             ELSE PathLoop(mx, n, i + 1, closest, inpath \cup {closest},
                           Append(path, closest),
                           pathcost + getCost(mx, curr_city, closest))

\* variant of ClosingCost: the final link left out
NoClosingCost(mx, curr_city, start) == 0

\* the cost of the final link back to the initial city
ClosingCost(mx, curr_city, start) == getCost(mx, curr_city, start)

\* calcPath on a fresh Path (path empty, pathcost 0)
calcPath(mx, n, start) ==
    LET r == PathLoop(mx, n, 1, start, {start}, <<start>>, 0)
    IN  [path |-> r.path,
         pathcost |-> r.pathcost + ClosingCost(mx, r.curr_city, start),
         failed |-> r.failed]

-----------------------------------------------------------------------------
(* main: the partition of the start cities *)

\* C integer division, truncating toward zero (b > 0)
CDiv(a, b) == IF a >= 0 THEN a \div b ELSE -((-a) \div b)

Range(n, s, w) == CDiv(n - s, w)

BoundStart(i, range, s) == i * range + s

\* variant of BoundEnd: the last thread not given the left over cities
BoundEndNoLeftOver(i, range, s, n, w) == BoundStart(i, range, s) + range

BoundEnd(i, range, s, n, w) ==
    IF i = w - 1 THEN n + 1 ELSE BoundStart(i, range, s) + range

\* variant of ClampEnd: the end left as main set it
NoClampEnd(end, n) == end

\* runthread: if (b->end > cities.size()) b->end = cities.size()
ClampEnd(end, n) == IF end > n THEN n ELSE end

\* variant of StartExceeds: off by one, as the last thread's end is
StartExceedsByTwo(start, n) == start > n + 1

\* runthread: if (b->start > cities.size()) ... exit(-1)
StartExceeds(start, n) == start > n

\* variants of StopTimePassed: the comparison reversed; the test for a
\* stop time being set left out
StopTimeAhead(stop, t) == stop > 0 /\ t < stop

StopTimePassedUnset(stop, t) == t > stop

\* runthread: the stop-time test at the head of the loop body
StopTimePassed(stop, t) == stop > 0 /\ t > stop

\* variant of BeatsLocal: every new tour taken as the local best
BeatsLocalAlways(length, best) == TRUE

\* runthread: length < local_best_length
BeatsLocal(length, best) == length < best

\* variant of BeatsGlobal: an equal length wins too
BeatsGlobalOrEqual(local, global) == local <= global

\* variant of BeatsGlobal: the comparison reversed
LosesGlobal(local, global) == local > global

\* runthread: local_best_length < global_best_length
BeatsGlobal(local, global) == local < global

-----------------------------------------------------------------------------
(* State *)

N == Cardinality(DOMAIN cities)
Workers == 0 .. num_threads - 1
Running == status = "running"

\* the main thread, numbered after the workers
MainThread == num_threads

\* what "if (p) delete p" deletes
IfSet(p) == IF p = NULL THEN {} ELSE {p}

\* the record of the deletes after thread by has deleted the Paths ps
Delete(d, ps, by) ==
    [p \in (DOMAIN d) \cup ps |->
        IF p \in ps
        THEN Append(IF p \in DOMAIN d THEN d[p] ELSE <<>>, by)
        ELSE d[p]]

\* variant of LoopDeletes: the new Path is deleted although it is kept
LoopDeletesBoth(beats, old, path) == IfSet(old) \cup {path}

\* what the body of the loop deletes once calcPath has returned: the local
\* best the new Path replaces, or else the new Path
LoopDeletes(beats, old, path) == IF beats THEN IfSet(old) ELSE {path}

\* a stop time is set and time(NULL) is past it
Late == global_stop_time > 0 /\ now > global_stop_time

\* The inputs of the threaded runs: the first n cities of two layouts (each
\* repeats after its four points).  With four cities the greedy tour from
\* the last start city is the only shortest one in LayoutA (8, 8, 8, 7), the
\* one from the first start city in LayoutB (6, 7, 7, 7).
LayoutA == <<(<<1, 2>>), (<<4, 0>>), (<<2, 0>>), (<<3, 1>>)>>
LayoutB == <<(<<1, 1>>), (<<0, 2>>), (<<3, 0>>), (<<2, 1>>)>>

FirstCities(layout, n) == [i \in 0 .. n - 1 |-> layout[(i % Len(layout)) + 1]]

Layouts(maxn) == {FirstCities(l, n) : l \in {LayoutA, LayoutB}, n \in 0 .. maxn}

\* The inputs of the single-worker runs: every placement of up to
\* MaxCalcCities cities on these points
GridPoints == {<<0, 0>>, <<0, 3>>, <<4, 3>>, <<4, 0>>, <<1, 0>>}

CitiesOver(points, maxn) == UNION {[0 .. n - 1 -> points] : n \in 0 .. maxn}

\* global_stop_time: 0, or time(NULL) + timelimit as main computed it.  The
\* program sees the clock only through "time(NULL) > global_stop_time", so
\* the clock of the model counts from the last second before that turns
\* true: the stop time is the time of Init and the first Tick passes it.
StopTimes == {0, Epoch}

InitFrom(cvs, threads, lowest, stops) ==
    /\ cities \in cvs
    /\ cost_matrix = <<>>
    /\ num_threads \in threads
    /\ start_city \in lowest .. N + Max2(num_threads, 1)
    /\ global_stop_time \in stops
    /\ now = Epoch
    /\ pc = "initCosts"
    /\ mi = 0
    /\ bounds = [i \in Workers |-> [start |-> 0, end |-> 0]]
    /\ tpc = [i \in Workers |-> "idle"]
    /\ tsc = [i \in Workers |-> 0]
    /\ local_best_length = [i \in Workers |-> INT_MAX]
    /\ local_best_path = [i \in Workers |-> NULL]
    /\ global_best_length = INT_MAX
    /\ global_best_path = NULL
    /\ m = Free
    /\ built = <<>>
    /\ live = {}
    /\ deleted = <<>>
    /\ begun = [i \in Workers |-> <<>>]
    /\ evals = [i \in Workers |-> <<>>]
    /\ spawned = [i \in Workers |-> FALSE]
    /\ status = "running"
    /\ printed = Nothing

InitWith(cvs, threads, stops) == InitFrom(cvs, threads, 0, stops)

Init == InitWith(Layouts(MaxCities), 1 .. MaxThreads, StopTimes)

\* every value atoi can give -s and -t, down to -MaxBelow
InitArgs ==
    InitFrom(Layouts(MaxCities), (0 - MaxBelow) .. MaxThreads, 0 - MaxBelow,
             StopTimes)

\* two cities anywhere on the grid of coordinates 0..MaxCoord, one worker,
\* no stop time
InitCosts ==
    InitWith([0 .. 1 -> (0 .. MaxCoord) \X (0 .. MaxCoord)], {1}, {0})

\* one worker, no stop time
InitCalc == InitWith(CitiesOver(GridPoints, MaxCalcCities), {1}, {0})

-----------------------------------------------------------------------------
(* main *)

MainInitCosts ==
    /\ Running /\ pc = "initCosts"
    /\ cost_matrix' = initCosts(cities)
    /\ pc' = "spawn"
    /\ UNCHANGED <<cities, num_threads, start_city, global_stop_time, now, mi,
                   bounds, tpc, tsc, local_best_length, local_best_path,
                   global_best_length, global_best_path, m, built, live, deleted, begun,
                   evals, spawned, status, printed>>

\* main with num_threads <= 0.  A negative count makes the constructor of
\* bounds throw (the count converted to size_t is beyond max_size), and the
\* exception is caught nowhere: abort.  With a count of 0 the division that
\* computes range is undefined: the build either traps, or goes on with some
\* range, which nothing reads as both loops run zero times.
MainNoThreads ==
    /\ Running /\ pc = "spawn" /\ num_threads <= 0
    /\ IF num_threads < 0
       THEN status' = "abort" /\ pc' = pc
       ELSE \E traps \in BOOLEAN :
                IF traps THEN status' = "crash" /\ pc' = pc
                ELSE status' = status /\ pc' = "print"
    /\ UNCHANGED <<cities, cost_matrix, num_threads, start_city, global_stop_time,
                   now, mi, bounds, tpc, tsc, local_best_length, local_best_path,
                   global_best_length, global_best_path, m, built, live, deleted, begun,
                   evals, spawned, printed>>

\* one iteration of the loop that fills bounds[i] and creates thread i
MainSpawn ==
    /\ Running /\ pc = "spawn" /\ mi < num_threads
    /\ LET range == Range(N, start_city, num_threads)
       IN  bounds' = [bounds EXCEPT ![mi] =
                        [start |-> BoundStart(mi, range, start_city),
                         end |-> BoundEnd(mi, range, start_city, N, num_threads)]]
    /\ tpc' = [tpc EXCEPT ![mi] = "entry"]
    /\ spawned' = [spawned EXCEPT ![mi] = Late]
    /\ IF mi + 1 < num_threads
       THEN mi' = mi + 1 /\ pc' = pc
       ELSE mi' = 0 /\ pc' = "join"
    /\ UNCHANGED <<cities, cost_matrix, num_threads, start_city, global_stop_time,
                   now, tsc, local_best_length, local_best_path, global_best_length,
                   global_best_path, m, built, live, deleted, begun, evals, status, printed>>

\* variant of Finished: the join does not wait
FinishedAlways(position) == TRUE

\* pthread_join returns once the thread has returned from runthread
Finished(position) == position = "done"

\* one iteration of the loop of pthread_join
MainJoin ==
    /\ Running /\ pc = "join" /\ mi < num_threads
    /\ Finished(tpc[mi])
    /\ IF mi + 1 < num_threads
       THEN mi' = mi + 1 /\ pc' = pc
       ELSE mi' = 0 /\ pc' = "print"
    /\ UNCHANGED <<cities, cost_matrix, num_threads, start_city, global_stop_time,
                   now, bounds, tpc, tsc, local_best_length, local_best_path,
                   global_best_length, global_best_path, m, built, live, deleted, begun,
                   evals, spawned, status, printed>>

\* what Path::printPath writes for the Path p
printPath(p) == [pathcost |-> p.pathcost, path |-> p.path]

\* global_best_path->printPath(outfile); delete global_best_path; return 0.
\* outfile is argv's optional output file, read nowhere else.  With
\* global_best_path NULL the member call is undefined: the build either
\* faults or (no member is read when outfile is NULL) goes on to return 0.
MainPrint ==
    /\ Running /\ pc = "print"
    /\ pc' = "done"
    /\ IF global_best_path = NULL
       THEN /\ \E outcome \in {"crash", "exit0"} : status' = outcome
            /\ UNCHANGED <<printed, live, deleted>>
       ELSE /\ \E outfile \in BOOLEAN :
                 printed' = IF outfile THEN printPath(built[global_best_path])
                            ELSE Nothing
            /\ live' = live \ {global_best_path}
            /\ deleted' = Delete(deleted, {global_best_path}, MainThread)
            /\ status' = "exit0"
    /\ UNCHANGED <<cities, cost_matrix, num_threads, start_city, global_stop_time,
                   now, mi, bounds, tpc, tsc, local_best_length, local_best_path,
                   global_best_length, global_best_path, m, built, begun, evals,
                   spawned>>

-----------------------------------------------------------------------------
(* runthread *)

\* the checks on b->start and b->end before the loop
RtEntry(i) ==
    /\ Running /\ tpc[i] = "entry"
    /\ IF StartExceeds(bounds[i].start, N)
       THEN /\ status' = "exit-1"
            /\ UNCHANGED <<bounds, tpc, tsc>>
       ELSE /\ bounds' = [bounds EXCEPT ![i].end = ClampEnd(bounds[i].end, N)]
            /\ tsc' = [tsc EXCEPT ![i] = bounds[i].start]
            /\ tpc' = [tpc EXCEPT ![i] = "loop"]
            /\ UNCHANGED status
    /\ UNCHANGED <<cities, cost_matrix, num_threads, start_city, global_stop_time,
                   now, pc, mi, local_best_length, local_best_path,
                   global_best_length, global_best_path, m, built, live, deleted, begun,
                   evals, spawned, printed>>

\* the loop condition and the stop-time break
RtLoop(i) ==
    /\ Running /\ tpc[i] = "loop"
    /\ IF tsc[i] < bounds[i].end /\ ~StopTimePassed(global_stop_time, now)
       THEN /\ tpc' = [tpc EXCEPT ![i] = "calc"]
            /\ begun' = [begun EXCEPT ![i] = Append(@, [start |-> tsc[i], late |-> Late])]
       ELSE /\ tpc' = [tpc EXCEPT ![i] = "lock"]
            /\ UNCHANGED begun
    /\ UNCHANGED <<cities, cost_matrix, num_threads, start_city, global_stop_time,
                   now, pc, mi, bounds, tsc, local_best_length, local_best_path,
                   global_best_length, global_best_path, m, built, live, deleted, evals,
                   spawned, status, printed>>

\* what calcPath leaves in the Path when start_city is no index of the
\* cities: inpath[start_city] and the row matrix[start_city] lie outside
\* their vectors, so the scan reads whatever is there
GarbagePaths(start) ==
    {[path |-> <<start>>, pathcost |-> c, failed |-> FALSE] : c \in {0, INT_MAX}}

NoPath == [path |-> <<>>, pathcost |-> 0, failed |-> FALSE]

\* the outcomes of path->calcPath(cities, start): the tour, or with a start
\* outside the vectors (undefined) a fault or a return with garbage
CalcOutcomes(mx, n, start) ==
    IF start \in 0 .. n - 1
    THEN {[fault |-> FALSE, tour |-> calcPath(mx, n, start)]}
    ELSE {[fault |-> TRUE, tour |-> NoPath]}
             \cup {[fault |-> FALSE, tour |-> g] : g \in GarbagePaths(start)}

\* new Path, calcPath, the comparison with the local best, start_city++
RtCalc(i) ==
    /\ Running /\ tpc[i] = "calc"
    /\ \E outcome \in CalcOutcomes(cost_matrix, N, tsc[i]) :
       LET p == outcome.tour
           path == <<i, tsc[i]>>
       IN  IF outcome.fault \/ p.failed
           THEN /\ status' = IF outcome.fault THEN "crash" ELSE "abort"
                /\ UNCHANGED <<built, live, deleted, evals, local_best_length,
                               local_best_path, tsc, tpc>>
           ELSE /\ built' = built @@ (path :> [path |-> p.path, pathcost |-> p.pathcost])
                /\ evals' = [evals EXCEPT ![i] =
                               Append(@, [start |-> tsc[i], length |-> p.pathcost,
                                          late |-> Late])]
                /\ LET beats == BeatsLocal(p.pathcost, local_best_length[i])
                       gone == LoopDeletes(beats, local_best_path[i], path)
                   IN  /\ live' = (live \cup {path}) \ gone
                       /\ deleted' = Delete(deleted, gone, i)
                       /\ IF beats
                          THEN /\ local_best_length' =
                                      [local_best_length EXCEPT ![i] = p.pathcost]
                               /\ local_best_path' =
                                      [local_best_path EXCEPT ![i] = path]
                          ELSE UNCHANGED <<local_best_length, local_best_path>>
                /\ tsc' = [tsc EXCEPT ![i] = @ + 1]
                /\ tpc' = [tpc EXCEPT ![i] = "loop"]
                /\ UNCHANGED status
    /\ UNCHANGED <<cities, cost_matrix, num_threads, start_city, global_stop_time,
                   now, pc, mi, bounds, global_best_length, global_best_path, m,
                   begun, spawned, printed>>

\* variant of CanLock: the lock is granted whoever holds it
CanLockAlways(holder) == TRUE

\* pthread_mutex_lock(&m) returns only when no thread holds m
CanLock(holder) == holder = Free

\* pthread_mutex_lock(&m)
RtLock(i) ==
    /\ Running /\ tpc[i] = "lock"
    /\ CanLock(m)
    /\ m' = i
    /\ tpc' = [tpc EXCEPT ![i] = "cs"]
    /\ UNCHANGED <<cities, cost_matrix, num_threads, start_city, global_stop_time,
                   now, pc, mi, bounds, tsc, local_best_length, local_best_path,
                   global_best_length, global_best_path, built, live, deleted, begun, evals,
                   spawned, status, printed>>

\* the comparison with the global best and its replacement
RtOffer(i) ==
    /\ Running /\ tpc[i] = "cs"
    /\ IF BeatsGlobal(local_best_length[i], global_best_length)
       THEN /\ global_best_length' = local_best_length[i]
            /\ live' = live \ IfSet(global_best_path)
            /\ deleted' = Delete(deleted, IfSet(global_best_path), i)
            /\ global_best_path' = local_best_path[i]
       ELSE UNCHANGED <<global_best_length, global_best_path, live, deleted>>
    /\ tpc' = [tpc EXCEPT ![i] = "unlock"]
    /\ UNCHANGED <<cities, cost_matrix, num_threads, start_city, global_stop_time,
                   now, pc, mi, bounds, tsc, local_best_length, local_best_path, m,
                   built, begun, evals, spawned, status, printed>>

\* variant of Unlocked: the holder keeps m
UnlockedNever(holder) == holder

\* the holder of m after pthread_mutex_unlock(&m)
Unlocked(holder) == Free

\* pthread_mutex_unlock(&m); return 0
RtUnlock(i) ==
    /\ Running /\ tpc[i] = "unlock"
    /\ m' = Unlocked(m)
    /\ tpc' = [tpc EXCEPT ![i] = "done"]
    /\ UNCHANGED <<cities, cost_matrix, num_threads, start_city, global_stop_time,
                   now, pc, mi, bounds, tsc, local_best_length, local_best_path,
                   global_best_length, global_best_path, built, live, deleted, begun, evals,
                   spawned, status, printed>>

\* The clock.  time(NULL) is only read while a stop time is set, and what it
\* returns matters only up to the first value past the stop time.
Tick ==
    /\ Running
    /\ global_stop_time > 0 /\ now <= global_stop_time
    /\ now' = now + 1
    /\ UNCHANGED <<cities, cost_matrix, num_threads, start_city, global_stop_time,
                   pc, mi, bounds, tpc, tsc, local_best_length, local_best_path,
                   global_best_length, global_best_path, m, built, live, deleted, begun,
                   evals, spawned, status, printed>>

Next ==
    \/ MainInitCosts
    \/ MainSpawn
    \/ MainJoin
    \/ MainPrint
    \/ \E i \in Workers : RtEntry(i)
    \/ \E i \in Workers : RtLoop(i)
    \/ \E i \in Workers : RtCalc(i)
    \/ \E i \in Workers : RtLock(i)
    \/ \E i \in Workers : RtOffer(i)
    \/ \E i \in Workers : RtUnlock(i)
    \/ Tick

Spec == Init /\ [][Next]_vars

NextArgs == Next \/ MainNoThreads

\* the runs over all values of the arguments
SpecArgs == InitArgs /\ [][NextArgs]_vars

\* the steps of a run without a stop time: the clock is never read
NextCalc ==
    \/ MainInitCosts
    \/ MainSpawn
    \/ MainJoin
    \/ MainPrint
    \/ \E i \in Workers : RtEntry(i)
    \/ \E i \in Workers : RtLoop(i)
    \/ \E i \in Workers : RtCalc(i)
    \/ \E i \in Workers : RtLock(i)
    \/ \E i \in Workers : RtOffer(i)
    \/ \E i \in Workers : RtUnlock(i)

SpecCalc == InitCalc /\ [][NextCalc]_vars

SpecCosts == InitCosts /\ [][NextCalc]_vars

\* the configurations of the runs checked for termination
InitFair == InitWith(Layouts(MaxFairCities), 1 .. MaxThreads, StopTimes)

\* the steps of the main thread
MainStep == MainInitCosts \/ MainSpawn \/ MainJoin \/ MainPrint

\* the steps of thread i, for every thread pthread_create can have started
WorkerStep(i) ==
    /\ i \in Workers
    /\ \/ RtEntry(i) \/ RtLoop(i) \/ RtCalc(i)
       \/ RtLock(i) \/ RtOffer(i) \/ RtUnlock(i)

\* the runs in which the scheduler lets every thread that can run take a
\* step eventually
SpecFair ==
    /\ InitFair /\ [][Next]_vars
    /\ WF_vars(MainStep)
    /\ \A i \in 0 .. MaxThreads - 1 : WF_vars(WorkerStep(i))

-----------------------------------------------------------------------------
(* Properties *)

Paths == DOMAIN built
BuiltCosts == {built[p].pathcost : p \in Paths}
Joined == pc \in {"print", "done"}
AllEntered == \A i \in Workers : tpc[i] \notin {"idle", "entry"}
AllFinished == \A i \in Workers : tpc[i] = "done"
NoStopTime == global_stop_time = 0

\* the start cities worker i iterates, once it has clamped its end
RangeOf(i) == bounds[i].start .. bounds[i].end - 1

\* the cost of a closed tour, summed edge by edge from the matrix
RECURSIVE EdgeSum(_, _, _)
EdgeSum(mx, path, k) ==
    IF k >= Len(path) THEN 0
    ELSE mx[path[k]][path[k + 1]] + EdgeSum(mx, path, k + 1)

TourCost(mx, path) == EdgeSum(mx, path, 1) + mx[path[Len(path)]][path[1]]

\* C1: once main has joined all workers, global_best_length is the minimum
\* cost over all tours any worker built, and global_best_path is one of those
\* tours, whose own cost is global_best_length.
C1_RegistryHoldsMinimum ==
    (Joined /\ Paths # {}) =>
        /\ global_best_length \in BuiltCosts
        /\ \A c \in BuiltCosts : global_best_length <= c
        /\ global_best_path \in Paths
        /\ built[global_best_path].pathcost = global_best_length

\* three workers have been joined, tours of different costs were built, and
\* the registry holds a tour of the last worker
C1_Witness ==
    /\ pc = "print" /\ num_threads = 3
    /\ Cardinality(BuiltCosts) >= 2
    /\ \A i \in Workers : evals[i] # <<>>
    /\ global_best_path # NULL /\ global_best_path[1] = 2

\* C2: for 0 <= S <= N, the start-city ranges the workers iterate (bounds set
\* by main, end clamped by runthread) are contiguous, pairwise disjoint and
\* cover [S, N) exactly: each start city of [S, N) is in one range, and no
\* range holds a start city outside [S, N).
C2_RangesPartition ==
    (start_city <= N /\ AllEntered) =>
        /\ bounds[0].start = start_city
        /\ \A i \in Workers : bounds[i].start <= bounds[i].end
        /\ \A i \in Workers : i + 1 \in Workers => bounds[i].end = bounds[i + 1].start
        /\ bounds[num_threads - 1].end = N
        /\ \A c \in start_city .. N - 1 :
               Cardinality({i \in Workers : c \in RangeOf(i)}) = 1
        /\ \A i \in Workers : RangeOf(i) \subseteq start_city .. N - 1

\* four cities over three workers from offset 0: ranges [0,1), [1,2), [2,4)
C2_Witness ==
    /\ AllEntered /\ num_threads = 3 /\ N = 4 /\ start_city = 0
    /\ RangeOf(0) = {0} /\ RangeOf(1) = {1} /\ RangeOf(2) = {2, 3}

\* C3: every path calcPath produced has length N, begins with its start city
\* and contains each city index of [0, N) exactly once.
C3_TourIsPermutation ==
    \A p \in Paths :
        /\ Len(built[p].path) = N
        /\ built[p].path[1] = p[2]
        /\ \A c \in 0 .. N - 1 :
               Cardinality({k \in 1 .. Len(built[p].path) : built[p].path[k] = c}) = 1
        /\ \A k \in 1 .. Len(built[p].path) : built[p].path[k] \in 0 .. N - 1

\* a tour over four cities from a start city other than 0 has been built
C3_Witness ==
    \E p \in Paths : N = 4 /\ p[2] = 2 /\ built[p].path[1] = 2

\* C4: the pathcost of every tour calcPath built is the sum of the costs of
\* its consecutive edges plus the closing edge, summed from the matrix; for
\* one city the tour is [0] with cost 0, for two cities the cost is twice
\* their distance.
C4_CostIsEdgeSum ==
    \A p \in Paths :
        /\ built[p].pathcost = TourCost(cost_matrix, built[p].path)
        /\ N = 1 => built[p].path = <<0>> /\ built[p].pathcost = 0
        /\ N = 2 => built[p].pathcost = 2 * cost_matrix[0][1]

\* a tour over two cities a positive distance apart has been built
C4_Witness ==
    \E p \in Paths : N = 2 /\ cost_matrix[0][1] > 0 /\ built[p].pathcost > 0

\* the cities of the example: (0,0), (0,3), (4,3), (4,0)
ScenarioA ==
    /\ N = 4
    /\ cities[0] = <<0, 0>> /\ cities[1] = <<0, 3>>
    /\ cities[2] = <<4, 3>> /\ cities[3] = <<4, 0>>

\* city u is still unvisited after the first k cities of path
Unvisited(path, k, u) == \A j \in 1 .. k : path[j] # u

\* C5: at every step of calcPath the city appended is an unvisited city at
\* minimal distance from the current city, the lowest-indexed one among the
\* unvisited cities at that distance; the example's cities give from start 0
\* the tour [0,1,2,3] with cost 14.
C5_NearestLowestIndex ==
    \A p \in Paths :
        /\ \A k \in 1 .. Len(built[p].path) - 1 :
              LET path == built[p].path
                  curr == path[k]
                  next == path[k + 1]
              IN  /\ Unvisited(path, k, next)
                  /\ \A u \in 0 .. N - 1 :
                        Unvisited(path, k, u) =>
                            /\ cost_matrix[curr][next] <= cost_matrix[curr][u]
                            /\ cost_matrix[curr][next] = cost_matrix[curr][u]
                                   => next <= u
        /\ (ScenarioA /\ p[2] = 0) =>
               built[p].path = <<0, 1, 2, 3>> /\ built[p].pathcost = 14

\* a tour was built in which a step had two unvisited cities at the minimal
\* distance
C5_Witness ==
    \E p \in Paths :
        \E k \in 1 .. Len(built[p].path) - 1 :
            \E u \in 0 .. N - 1 :
                /\ Unvisited(built[p].path, k, u)
                /\ u # built[p].path[k + 1]
                /\ cost_matrix[built[p].path[k]][u]
                       = cost_matrix[built[p].path[k]][built[p].path[k + 1]]

\* the cost of the greedy tour from start city s
GreedyCost(s) == calcPath(cost_matrix, N, s).pathcost

\* C6: with no stop time and S <= N-1, the run ends with global_best_length
\* equal to the minimum greedy tour cost over the start cities of [S, N),
\* whatever the worker count and the interleaving: the run with one worker
\* and the run with k > 1 workers end with the same value.
C6_SameMinimumForAnyWorkerCount ==
    (Joined /\ NoStopTime /\ start_city <= N - 1) =>
        /\ \E s \in start_city .. N - 1 : global_best_length = GreedyCost(s)
        /\ \A s \in start_city .. N - 1 : global_best_length <= GreedyCost(s)

\* three workers were joined, and only the tour from the last start city,
\* one of the cities left over for the last worker, has the minimal cost
C6_Witness ==
    /\ pc = "print" /\ NoStopTime /\ num_threads = 3 /\ N = 4 /\ start_city = 0
    /\ global_best_path = <<2, 3>>
    /\ \A s \in 0 .. 2 : GreedyCost(s) > global_best_length

\* worker i stands at a start-city boundary with the stop time past
AtBoundaryLate(i) == tpc[i] = "loop" /\ tsc[i] < bounds[i].end /\ Late

\* worker i has left its loop
PastLoop(i) == tpc[i] \in {"lock", "cs", "unlock", "done"}

C7_State ==
    \A i \in Workers :
        \* no start city was begun with the stop time past
        /\ \A k \in 1 .. Len(begun[i]) : ~begun[i][k].late
        \* a worker spawned with the stop time past evaluates nothing
        /\ spawned[i] =>
              /\ begun[i] = <<>> /\ evals[i] = <<>>
              /\ local_best_path[i] = NULL
              /\ global_best_path = NULL \/ global_best_path[1] # i

C7_Step ==
    \A i \in Workers :
        \* at a boundary with the stop time past the worker leaves the loop
        /\ (AtBoundaryLate(i) /\ tpc'[i] # tpc[i]) =>
               tpc'[i] = "lock" /\ begun'[i] = begun[i]
        \* and begins no later start city
        /\ PastLoop(i) =>
               PastLoop(i)' /\ begun'[i] = begun[i] /\ evals'[i] = evals[i]
        \* a tour construction begun is finished and compared with the local
        \* best, whatever the time
        /\ (tpc[i] = "calc" /\ tpc'[i] # "calc") =>
               LET path == <<i, tsc[i]>>
                   length == built'[path].pathcost
               IN  /\ path \notin Paths /\ path \in Paths'
                   /\ length = TourCost(cost_matrix, built'[path].path)
                   /\ evals'[i] = Append(evals[i], [start |-> tsc[i],
                                                    length |-> length,
                                                    late |-> Late])
                   /\ local_best_length'[i] = Min2(local_best_length[i], length)
                   /\ local_best_path'[i] =
                          IF length < local_best_length[i] THEN path
                          ELSE local_best_path[i]
        \* the offer of a worker spawned with the stop time past changes nothing
        /\ (spawned[i] /\ tpc[i] = "cs") =>
               UNCHANGED <<global_best_length, global_best_path>>

\* C7: the stop time is honoured at start-city boundaries only, and for
\* good: a worker that is about to begin a start city with the stop time past
\* begins neither that start city nor a later one; a tour construction begun
\* is finished and compared with the local best; a worker spawned with the
\* stop time already past evaluates no start city and leaves the registry as
\* it was.
C7_StopTimeAtBoundaries == []C7_State /\ [][C7_Step]_vars

\* worker i finished a tour after the stop time had passed and then stopped
\* with start cities left; worker j, spawned late, finished without a tour
C7_Witness ==
    \E i, j \in Workers :
        /\ tpc[i] = "done" /\ evals[i] # <<>>
        /\ evals[i][Len(evals[i])].late
        /\ Len(evals[i]) < Cardinality(RangeOf(i))
        /\ spawned[j] /\ tpc[j] = "done" /\ RangeOf(j) # {}

\* the calcPath calls made so far, as <<worker, position in its order>>
Evaluations == UNION {{<<i, k>> : k \in 1 .. Len(evals[i])} : i \in Workers}

\* C8: with no stop time and S <= N, once all workers have finished every
\* start city of [S, N) was evaluated by calcPath exactly once, by the worker
\* whose range holds it, each worker going through its range in ascending
\* order.
C8_EveryStartCityOnce ==
    (NoStopTime /\ start_city <= N /\ AllFinished) =>
        /\ \A c \in start_city .. N - 1 :
               Cardinality({e \in Evaluations : evals[e[1]][e[2]].start = c}) = 1
        /\ \A e \in Evaluations :
               evals[e[1]][e[2]].start \in RangeOf(e[1]) \cap (start_city .. N - 1)
        /\ \A i \in Workers :
               \A k \in 1 .. Len(evals[i]) - 1 :
                   evals[i][k].start < evals[i][k + 1].start

\* two workers finished the start cities 1..3 of four cities, the first one
\* start city and the second, with the left over one, two
C8_Witness ==
    /\ NoStopTime /\ AllFinished /\ num_threads = 2 /\ N = 4 /\ start_city = 1
    /\ Len(evals[0]) = 1 /\ Len(evals[1]) = 2

\* C9 (as claimed): when no worker has produced a tour by the time all are
\* joined, the process ends in an error outcome and prints no tour.
C9_EmptySearchFails ==
    (pc = "done" /\ Paths = {}) => status # "exit0" /\ printed = Nothing

\* C10: with S > N no worker gets past the check of its start, so no tour is
\* begun or built, main never gets to print, and the only way the process
\* ends is exit(-1) with the diagnostic.
C10_StartBeyondCitiesExits ==
    start_city > N =>
        /\ status \in {"running", "exit-1"}
        /\ \A i \in Workers : tpc[i] \in {"idle", "entry"}
        /\ \A i \in Workers : begun[i] = <<>> /\ evals[i] = <<>>
        /\ Paths = {}
        /\ pc \in {"initCosts", "spawn", "join"}
        /\ printed = Nothing

\* the process has exited on the check of a worker, the second worker having
\* been created with a start below the first one's (negative range)
C10_Witness ==
    /\ status = "exit-1" /\ start_city > N /\ num_threads >= 2
    /\ tpc[1] = "entry" /\ bounds[1].start < bounds[0].start

\* C11 (as claimed): with num_threads <= 0 the process is stopped as a
\* configuration error before any search work: it ends abnormally, main
\* never gets past the computation of the partition, and no worker is
\* spawned, no tour built or printed.
C11_NonPositiveThreadsRejected ==
    num_threads <= 0 =>
        /\ status \in {"running", "exit-1", "abort", "crash"}
        /\ pc \in {"initCosts", "spawn"}
        /\ Paths = {} /\ printed = Nothing

\* C17 (as claimed): with num_threads >= 1, whatever the start offset and
\* the city count, every start city a worker passes to calcPath lies in
\* [0, N), every city calcPath visits (the indices of its accesses to the
\* visited set and the matrix) lies in [0, N), and its assert never fails.
C17_IndicesInRange ==
    num_threads >= 1 =>
        /\ \A i \in Workers :
               \A k \in 1 .. Len(begun[i]) : begun[i][k].start \in 0 .. N - 1
        /\ \A p \in Paths :
               \A k \in 1 .. Len(built[p].path) : built[p].path[k] \in 0 .. N - 1
        /\ status # "abort"

\* initCosts has run
MatrixBuilt == pc # "initCosts"

C12_State ==
    MatrixBuilt =>
        /\ DOMAIN cost_matrix = 0 .. N - 1
        /\ \A r \in 0 .. N - 1 :
              /\ DOMAIN cost_matrix[r] = 0 .. N - 1
              /\ cost_matrix[r][r] = 0
              /\ \A c \in 0 .. N - 1 :
                    /\ cost_matrix[r][c] = cost_matrix[c][r]
                    /\ cost_matrix[r][c] >= 0

C12_Step == MatrixBuilt => cost_matrix' = cost_matrix

\* C12: after initCosts, in every state and while the workers run, the cost
\* matrix is N x N, symmetric, 0 on the diagonal and nowhere negative, and no
\* step of a worker or of main writes it.
C12_MatrixSymmetricAndFrozen == []C12_State /\ [][C12_Step]_vars

\* a worker builds a tour over four cities while another holds the mutex
C12_Witness ==
    /\ N = 4 /\ MatrixBuilt
    /\ \E i, j \in Workers : tpc[i] = "calc" /\ tpc[j] = "cs"
    /\ cost_matrix[0][1] = 4 /\ cost_matrix[1][0] = 4

\* the squared distance of cities i and j
SquaredDistance(i, j) ==
    (cities[i][1] - cities[j][1]) * (cities[i][1] - cities[j][1])
        + (cities[i][2] - cities[j][2]) * (cities[i][2] - cities[j][2])

\* d is the distance rounded half up of two distinct points whose squared
\* distance is q
RoundsTo(q, d) == (2 * d - 1) * (2 * d - 1) <= 4 * q /\ 4 * q < (2 * d + 1) * (2 * d + 1)

\* C13 (as claimed): for every pair of cities i, j, matrix[i][j] is the
\* integer d >= 0 with (2d-1)^2 <= 4*(dx^2+dy^2) < (2d+1)^2.
C13_RoundedForEveryPair ==
    MatrixBuilt =>
        \A i, j \in 0 .. N - 1 :
            /\ cost_matrix[i][j] >= 0
            /\ RoundsTo(SquaredDistance(i, j), cost_matrix[i][j])

\* C13 (amended): for every pair of cities i, j at different points,
\* matrix[i][j] is the one integer d >= 0 with
\* (2d-1)^2 <= 4*(dx^2+dy^2) < (2d+1)^2, the distance rounded to the nearest
\* integer with ties up; for i = j and for cities at the same point it is 0,
\* which that inequality does not admit.  (0,0), (0,3), (4,3) are at the
\* distances 3, 4 and 5.
C13_RoundedForDistinctPoints ==
    MatrixBuilt =>
        \A i, j \in 0 .. N - 1 :
            LET q == SquaredDistance(i, j)
                d == cost_matrix[i][j]
            IN  /\ d >= 0
                /\ q = 0 => d = 0
                /\ q > 0 =>
                      /\ RoundsTo(q, d)
                      /\ \A e \in 0 .. q : RoundsTo(q, e) => e = d
                /\ (cities[i] = <<0, 0>> /\ cities[j] = <<0, 3>>) => d = 3
                /\ (cities[i] = <<0, 3>> /\ cities[j] = <<4, 3>>) => d = 4
                /\ (cities[i] = <<0, 0>> /\ cities[j] = <<4, 3>>) => d = 5

\* a distance that rounds up: (0,0) and (2,2), sqrt(8) stored as 3
C13_Witness ==
    /\ MatrixBuilt /\ N = 2
    /\ cities[0] = <<0, 0>> /\ cities[1] = <<2, 2>>
    /\ cost_matrix[0][1] = 3 /\ cost_matrix[1][0] = 3

\* worker i makes its offer in this step
Offers(i) == tpc[i] = "cs" /\ tpc'[i] # "cs"

C14_Step ==
    /\ \A i \in Workers :
          Offers(i) =>
              /\ IF local_best_length[i] < global_best_length
                 THEN /\ global_best_length' = local_best_length[i]
                      /\ global_best_path' = local_best_path[i]
                 ELSE UNCHANGED <<global_best_length, global_best_path>>
              \* a worker with a tour replaces the empty registry
              /\ (global_best_path = NULL /\ local_best_path[i] # NULL) =>
                     global_best_path' = local_best_path[i]
    /\ global_best_length' <= global_best_length
    /\ <<global_best_length, global_best_path>>'
           # <<global_best_length, global_best_path>>
       => \E i \in Workers : Offers(i)

\* C14: a worker's offer replaces (global_best_length, global_best_path) by
\* its local best exactly when the local best length is strictly smaller
\* than global_best_length (as it is when the registry is still empty and the
\* worker has a tour); otherwise the offer leaves the registry unchanged, so
\* an equal length never displaces the incumbent; global_best_length never
\* increases, and nothing but an offer changes the registry.
C14_OfferReplacesIffStrictlySmaller == [][C14_Step]_vars

\* a worker has offered a tour as long as the incumbent, which stayed
C14_Witness ==
    \E i \in Workers :
        /\ tpc[i] = "unlock" /\ local_best_path[i] # NULL
        /\ local_best_length[i] = global_best_length
        /\ global_best_path # local_best_path[i]

\* the workers inside the compare-and-replace section
InSection == {i \in Workers : tpc[i] \in {"cs", "unlock"}}

C15_State ==
    /\ Cardinality(InSection) <= 1
    /\ m \in Workers \cup {Free}
    /\ \A i \in Workers : (m = i) <=> (i \in InSection)

C15_Step ==
    \* the registry is written by the holder of m, inside the section
    /\ <<global_best_length, global_best_path>>'
           # <<global_best_length, global_best_path>>
       => m \in Workers /\ m' = m /\ tpc[m] = "cs"
    /\ \A i \in Workers :
          \* m is taken when free, by a worker whose loop has ended
          /\ (m' = i /\ m # i) => m = Free /\ tpc[i] = "lock" /\ tpc'[i] = "cs"
          /\ (tpc'[i] = "lock" /\ tpc[i] # "lock") =>
                 /\ tpc[i] = "loop"
                 /\ \/ tsc[i] >= bounds[i].end
                    \/ StopTimePassed(global_stop_time, now)
          \* it is given back right after the compare-and-replace
          /\ (m = i /\ m' # i) => m' = Free /\ tpc[i] = "unlock" /\ tpc'[i] = "done"
          \* and never taken again
          /\ tpc[i] \in {"cs", "unlock", "done"} =>
                 tpc'[i] \in {"cs", "unlock", "done"}
          /\ tpc[i] = "done" => tpc'[i] = "done"

\* C15: at most one worker at a time is inside the compare-and-replace
\* section; a worker is inside it exactly while it holds m, and the registry
\* changes only by a step of the holder; no worker holds m while it runs its
\* loop or builds a tour: each worker takes m once, from the position after
\* its loop has ended, and gives it back right after the compare-and-replace.
C15_RegistrySerialized == []C15_State /\ [][C15_Step]_vars

\* one worker is inside the section while another waits for m and a third
\* is still in its loop
C15_Witness ==
    \E i, j \in Workers :
        /\ i # j /\ m = i /\ tpc[i] = "cs" /\ tpc[j] = "lock"
        /\ \E k \in Workers : tpc[k] \in {"loop", "calc"}

C16_State ==
    /\ Joined => AllFinished /\ m = Free
    /\ printed # Nothing => AllFinished

C16_Step ==
    /\ Joined => UNCHANGED <<global_best_length, global_best_path>>
    \* main's read: the print and the delete of global_best_path
    /\ (pc = "print" /\ pc' = "done") =>
           /\ AllFinished /\ m = Free
           /\ UNCHANGED <<tpc, local_best_length, local_best_path>>

\* C16: main prints and deletes global_best_path only when every spawned
\* worker has finished (has ended its loop, made its offer, released m and
\* returned), and from the moment main has passed the joins no step changes
\* global_best_length or global_best_path.
C16_MainReadsAfterWorkers == []C16_State /\ [][C16_Step]_vars

\* main has printed the tour that several workers competed for
C16_Witness ==
    /\ pc = "done" /\ printed # Nothing /\ num_threads > 1
    /\ \E i \in Workers : local_best_path[i] \notin {NULL, global_best_path}

Deleted == DOMAIN deleted

\* the worker that built the Path behind pointer p
Builder(p) == p[1]

\* the Paths deleted in this step
NewlyDeleted == {p \in DOMAIN deleted' : p \notin Deleted}

C18_State ==
    \* no Path is deleted twice, and every Path is either live or deleted
    /\ \A p \in Deleted : Len(deleted[p]) = 1
    /\ live \cap Deleted = {}
    /\ live \cup Deleted = Paths
    \* the pointers still to be used point to live Paths
    /\ (global_best_path # NULL /\ pc # "done") => global_best_path \in live
    /\ \A i \in Workers :
          (local_best_path[i] # NULL /\ tpc[i] \in {"loop", "calc", "lock", "cs"})
              => local_best_path[i] \in live

C18_Step ==
    /\ \A p \in Deleted : deleted'[p] = deleted[p]
    /\ \A p \in NewlyDeleted :
          LET by == deleted'[p][1]
          IN  \* deleted while live (or built and dropped in the same step)
              /\ p \in live \/ p \notin Paths
              \* its builder deletes it only inside its loop, where it is not
              \* the Path of the registry
              /\ by = Builder(p) =>
                     tpc[by] = "calc" /\ p # global_best_path
              \* any other thread deletes it as the Path of the registry:
              \* the worker that replaces it, or main after printing it
              /\ by # Builder(p) =>
                     /\ p = global_best_path
                     /\ by \in Workers =>
                            /\ tpc[by] = "cs"
                            /\ global_best_path' = local_best_path[by]
                     /\ by = MainThread => pc = "print"
    \* a superseded best is deleted by the thread that replaces it
    /\ \A i \in Workers :
          (local_best_path'[i] # local_best_path[i] /\ local_best_path[i] # NULL)
              => local_best_path[i] \in NewlyDeleted
                 /\ deleted'[local_best_path[i]] = <<i>>
    /\ (global_best_path' # global_best_path /\ global_best_path # NULL)
           => global_best_path \in NewlyDeleted
              /\ deleted'[global_best_path] = <<m>>
    \* the Path main prints is live
    /\ printed' # printed =>
           global_best_path \in live /\ printed' = printPath(built[global_best_path])

\* C18: under every interleaving no Path is deleted twice and none is used
\* after its delete: a superseded local best is deleted once by its worker,
\* a superseded global best once by the worker that replaces it, a Path
\* adopted into the registry is never deleted by the worker that built it,
\* and the Path main prints is live when it is printed.
C18_NoDoubleDeleteNoUseAfterDelete == []C18_State /\ [][C18_Step]_vars

\* main has printed and deleted the best; before that a worker superseded
\* another worker's Path in the registry, and a worker one of its own
C18_Witness ==
    /\ pc = "done" /\ printed # Nothing
    /\ deleted[global_best_path] = <<MainThread>>
    /\ \E p \in Deleted : deleted[p][1] \in Workers \ {Builder(p)}
    /\ \E p \in Deleted : \E i \in Workers :
          /\ deleted[p] = <<Builder(p)>> /\ Builder(p) = i
          /\ \E k \in 1 .. Len(evals[i]) - 1 :
                /\ evals[i][k].start = p[2]
                /\ evals[i][k + 1].length < evals[i][k].length

\* 0 <= S <= N and W >= 1
ValidConfiguration == start_city \in 0 .. N /\ num_threads >= 1

C19_AllReturn == ValidConfiguration ~> (Joined /\ AllFinished /\ m = Free)

C19_LockGranted ==
    \A i \in 0 .. MaxThreads - 1 :
        (ValidConfiguration /\ i \in Workers /\ tpc[i] = "lock")
            ~> (i \in Workers /\ tpc[i] = "unlock")

\* C19: under fair scheduling, for 0 <= S <= N and W >= 1, with or without a
\* stop time, every worker eventually ends its loop, takes and releases m and
\* returns, and main eventually passes the joins; a worker that waits for m
\* eventually gets it.
C19_WorkersAndMainTerminate == C19_AllReturn /\ C19_LockGranted

\* a run with a stop time and several workers has ended with main past the
\* joins, after a worker had its loop cut short by the stop time
C19_Witness ==
    /\ ValidConfiguration /\ pc = "done" /\ AllFinished /\ m = Free
    /\ num_threads > 1 /\ global_stop_time > 0
    /\ \E i \in Workers : tsc[i] < bounds[i].end /\ evals[i] # <<>>

====
